---- MODULE Spec2Model ----
(***************************************************************************)
(* Model of FolderAnalyzer (src/src/folder_analyzer.py):                   *)
(*   analyze_folder_groups   records -> folder groups (threshold, sorted)  *)
(*   compact_nested_folders  folder groups -> merged folder groups         *)
(* A FolderGroup is a record [folders, shared_files, total_shared_size,     *)
(* wasted_space]; shared_files maps a group id to a REFERENCE to a Python   *)
(* list object, and `heap` maps each reference to the list's contents, so   *)
(* that in-place list.extend() and aliasing between the merged group and   *)
(* the caller's groups are visible.                                        *)
(***************************************************************************)
EXTENDS Integers, Sequences, FiniteSets, TLC

VARIABLES
    input,           \* "records": the caller analyzes a report, then compacts;
                     \* "groups": the caller hands its own FolderGroups to compact
    files,           \* the List[DuplicateFile] given to analyze_folder_groups
    min_group_size,  \* self.min_group_size
    results,         \* the list returned by analyze_folder_groups
    groups,          \* the list object compact_nested_folders works on (its parameter)
    heap,            \* contents of the record-list objects, by reference
    arg,             \* what the caller passed: the list and the heap at call time
    ret,             \* the list returned by compact_nested_folders
    first,           \* the list returned by the first call, kept for the second
    merges,          \* merges performed by the running / last call
    call,            \* 0 before any call of compact_nested_folders, then 1, 2
    pc               \* "start", "analyzed", "compact", "done"

vars == <<input, files, min_group_size, results, groups, heap, arg, ret, first, merges, call, pc>>

---------------------------------------------------------------------------
(* Bounds and input domains *)

MaxFiles == 4
MaxGroups == 3

DefaultMinGroupSize == 50000000

GroupIds == {"1", "2"}
Folders == {"photos", "backup", "photos/vacation"}
Sizes == {1000, 2000}
Thresholds == {0, 1500}

\* the folder sets of caller-built groups: the two of test_compact_nested_folders,
\* a chain {A, A/x}, {A/x, B}, {B, C}, and a name that only shares a prefix
DirectFolderSets ==
    { {"photos/vacation", "backup/photos"}, {"photos", "backup"},
      {"photos", "photos/vacation"}, {"photos/vacation", "backup"},
      {"backup", "photos2"} }
\* the per-copy size of each cluster in caller-built groups
DirectSizeOf == [gid \in GroupIds |-> IF gid = "1" THEN 1000 ELSE 2000]

---------------------------------------------------------------------------
(* Generic helpers *)

RECURSIVE SumOver(_, _)
SumOver(S, f) ==
    IF S = {} THEN 0
    ELSE LET x == CHOOSE y \in S : TRUE IN f[x] + SumOver(S \ {x}, f)

RECURSIVE SumSeq(_)
SumSeq(s) == IF s = <<>> THEN 0 ELSE Head(s) + SumSeq(Tail(s))

Range(s) == {s[k] : k \in DOMAIN s}

\* dict / defaultdict keys in insertion order: first occurrences only
RECURSIVE Distinct(_)
Distinct(s) ==
    IF s = <<>> THEN <<>>
    ELSE LET init == Distinct(SubSeq(s, 1, Len(s) - 1))
             x == s[Len(s)]
         IN IF x \in Range(init) THEN init ELSE Append(init, x)

\* str.startswith
StartsWith(s, prefix) ==
    Len(s) >= Len(prefix) /\ SubSeq(s, 1, Len(prefix)) = prefix

\* list.sort(key=total_shared_size, reverse=True): stable, descending
RECURSIVE InsertDesc(_, _)
InsertDesc(sorted, g) ==
    IF sorted = <<>> THEN <<g>>
    ELSE IF Head(sorted).total_shared_size >= g.total_shared_size
         THEN <<Head(sorted)>> \o InsertDesc(Tail(sorted), g)
         ELSE <<g>> \o sorted

\* variant: the list is returned in the order it was built
SortDesc_Unsorted(s) == s

RECURSIVE SortDesc(_)
SortDesc(s) ==
    IF s = <<>> THEN <<>>
    ELSE InsertDesc(SortDesc(SubSeq(s, 1, Len(s) - 1)), s[Len(s)])

---------------------------------------------------------------------------
(* DuplicateFile and the input of analyze_folder_groups *)

DuplicateFile(gid, folder, k, size) ==
    [group_id |-> gid, folder |-> folder,
     path |-> "/volume1/" \o folder \o "/file" \o ToString(k), size |-> size]

\* a record sequence: record k has group id and folder pick[k], and the size of
\* its group id (equal size within a group id)
InputFiles(pick, sz) ==
    [k \in DOMAIN pick |-> DuplicateFile(pick[k][1], pick[k][2], k, sz[pick[k][1]])]

---------------------------------------------------------------------------
(* analyze_folder_groups *)

\* groups_by_id: group id -> its records in input order
GroupsById(fs) ==
    [gid \in {fs[k].group_id : k \in DOMAIN fs} |->
        SelectSeq(fs, LAMBDA r : r.group_id = gid)]

\* iteration order of groups_by_id.items()
IdOrder(fs) == Distinct([k \in DOMAIN fs |-> fs[k].group_id])

FoldersOf(group_files) == {group_files[k].folder : k \in DOMAIN group_files}

\* variant: `if len(folders) > 0`, single-folder clusters are filed too
SpanningIds_AnyFolderCount(fs) ==
    LET byId == GroupsById(fs)
    IN SelectSeq(IdOrder(fs), LAMBDA gid : Cardinality(FoldersOf(byId[gid])) > 0)

\* the group ids whose cluster spans more than one folder, in iteration order
SpanningIds(fs) ==
    LET byId == GroupsById(fs)
    IN SelectSeq(IdOrder(fs), LAMBDA gid : Cardinality(FoldersOf(byId[gid])) > 1)

\* iteration order of folder_relationships.items()
RelationshipOrder(fs) ==
    LET ids == SpanningIds(fs)
        byId == GroupsById(fs)
    IN Distinct([k \in DOMAIN ids |-> FoldersOf(byId[ids[k]])])

\* the group ids filed under folder_relationships[folder_set]
IdsOfRelationship(fs, folder_set) ==
    LET byId == GroupsById(fs)
    IN {gid \in Range(SpanningIds(fs)) : FoldersOf(byId[gid]) = folder_set}

\* the list object folder_relationships[folder_set][gid]: one per spanning group id
RefOfId(fs, gid) ==
    LET order == IdOrder(fs)
    IN CHOOSE k \in DOMAIN order : order[k] = gid

AnalyzeHeap(fs) ==
    LET byId == GroupsById(fs)
        order == IdOrder(fs)
    IN [r \in {RefOfId(fs, gid) : gid \in Range(SpanningIds(fs))} |-> byId[order[r]]]

\* the FolderGroup computed for one folder set (before the threshold)
BuildGroup(fs, folder_set) ==
    LET ids == IdsOfRelationship(fs, folder_set)
        byId == GroupsById(fs)
    IN [folders |-> folder_set,
        shared_files |-> [gid \in ids |-> RefOfId(fs, gid)],
        total_shared_size |-> SumOver(ids, [gid \in ids |-> byId[gid][1].size]),
        wasted_space |->
            SumOver(ids, [gid \in ids |-> byId[gid][1].size * (Len(byId[gid]) - 1)])]

\* variant: the threshold test is left out
MeetsThreshold_Always(g, min) == TRUE

\* if total_shared_size >= self.min_group_size
MeetsThreshold(g, min) == g.total_shared_size >= min

AnalyzeFolderGroups(fs, min) ==
    LET order == RelationshipOrder(fs)
        built == [k \in DOMAIN order |-> BuildGroup(fs, order[k])]
    IN SortDesc(SelectSeq(built, LAMBDA g : MeetsThreshold(g, min)))

---------------------------------------------------------------------------
(* compact_nested_folders *)

\* variant: only folder1 inside folder2 is recognised
is_nested_OneWay(folder1, folder2) == StartsWith(folder1, folder2 \o "/")

is_nested(folder1, folder2) ==
    StartsWith(folder1, folder2 \o "/") \/ StartsWith(folder2, folder1 \o "/")

should_merge(group1, group2) ==
    \E folder1 \in group1.folders, folder2 \in group2.folders :
        folder1 = folder2 \/ is_nested(folder1, folder2)

\* the pairs (i, j), i < j, the nested scan would accept
MergeablePairs(gs) ==
    {p \in (DOMAIN gs) \X (DOMAIN gs) : p[1] < p[2] /\ should_merge(gs[p[1]], gs[p[2]])}

\* the pair the scan reaches first: smallest i, then smallest j
FirstPair(gs) ==
    LET pairs == MergeablePairs(gs)
    IN CHOOSE p \in pairs : \A q \in pairs : p[1] < q[1] \/ (p[1] = q[1] /\ p[2] <= q[2])

\* variant: the entries of groups[j] are not carried over
MergedFiles_TargetOnly(gi, gj) == gi.shared_files

\* merged_files: a copy of groups[i].shared_files (same list objects) plus the
\* entries of groups[j] whose group id groups[i] does not have
MergedFiles(gi, gj) ==
    [gid \in DOMAIN gi.shared_files \cup DOMAIN gj.shared_files |->
        IF gid \in DOMAIN gi.shared_files THEN gi.shared_files[gid]
        ELSE gj.shared_files[gid]]

\* variant: the merged group keeps the folders of groups[i] only
MergedFolders_TargetOnly(gi, gj) == gi.folders

MergedFolders(gi, gj) == gi.folders \cup gj.folders

\* variant: the total of groups[j] is not added
MergedGroup_DropsSize(gi, gj) ==
    [folders |-> MergedFolders(gi, gj),
     shared_files |-> MergedFiles(gi, gj),
     total_shared_size |-> gi.total_shared_size,
     wasted_space |-> gi.wasted_space + gj.wasted_space]

MergedGroup(gi, gj) ==
    [folders |-> MergedFolders(gi, gj),
     shared_files |-> MergedFiles(gi, gj),
     total_shared_size |-> gi.total_shared_size + gj.total_shared_size,
     wasted_space |-> gi.wasted_space + gj.wasted_space]

\* merged_files[group_id].extend(files): the list object of groups[i] grows in place
ExtendedHeap(h, gi, gj) ==
    [r \in DOMAIN h |->
        IF \E gid \in DOMAIN gi.shared_files \cap DOMAIN gj.shared_files :
               gi.shared_files[gid] = r
        THEN LET gid == CHOOSE x \in DOMAIN gi.shared_files \cap DOMAIN gj.shared_files :
                            gi.shared_files[x] = r
             IN h[r] \o h[gj.shared_files[gid]]
        ELSE h[r]]

\* variant: groups.pop(j) is left out, groups[j] stays in the list
ReplaceAndPop_KeepsAbsorbed(gs, i, j, merged) ==
    [k \in 1..Len(gs) |-> IF k = i THEN merged ELSE gs[k]]

\* groups[i] = merged_group; groups.pop(j)
ReplaceAndPop(gs, i, j, merged) ==
    [k \in 1..(Len(gs) - 1) |->
        IF k = i THEN merged ELSE IF k < j THEN gs[k] ELSE gs[k + 1]]

MergeOnce(gs) ==
    LET p == FirstPair(gs)
    IN ReplaceAndPop(gs, p[1], p[2], MergedGroup(gs[p[1]], gs[p[2]]))

\* the list the while loop leaves behind
RECURSIVE MergeAll(_)
MergeAll(gs) == IF MergeablePairs(gs) = {} THEN gs ELSE MergeAll(MergeOnce(gs))

\* the whole function, as a value
CompactNestedFolders(gs) == SortDesc(MergeAll(gs))

---------------------------------------------------------------------------
(* Initial states *)

NoHeap == [r \in {} |-> <<>>]

InitRecords ==
    /\ input = "records"
    /\ \E n \in 0..MaxFiles :
         \E pick \in [1..n -> GroupIds \X Folders], sz \in [GroupIds -> Sizes] :
            files = InputFiles(pick, sz)
    /\ min_group_size \in Thresholds
    /\ results = <<>>
    /\ groups = <<>>
    /\ heap = NoHeap
    /\ arg = [list |-> <<>>, heap |-> NoHeap]
    /\ ret = <<>>
    /\ first = <<>>
    /\ merges = 0
    /\ call = 0
    /\ pc = "start"

\* a caller-built FolderGroup: one cluster with one copy in each of its folders;
\* every group has a record list of its own (reference k), as the [] literals of
\* test_compact_nested_folders
DirectRecords(gid, folder_set, k, size) ==
    LET f1 == CHOOSE f \in folder_set : \A g \in folder_set : Len(f) <= Len(g)
        f2 == CHOOSE f \in folder_set : f # f1
    IN <<DuplicateFile(gid, f1, 2 * k - 1, size), DuplicateFile(gid, f2, 2 * k, size)>>

DirectGroups(fs, gid) ==
    [k \in DOMAIN fs |->
        [folders |-> fs[k], shared_files |-> [g \in {gid[k]} |-> k],
         total_shared_size |-> DirectSizeOf[gid[k]],
         wasted_space |-> DirectSizeOf[gid[k]]]]

DirectHeap(gs) ==
    [k \in DOMAIN gs |->
        LET gid == CHOOSE g \in DOMAIN gs[k].shared_files : TRUE
        IN DirectRecords(gid, gs[k].folders, k, gs[k].total_shared_size)]

InitGroups ==
    /\ input = "groups"
    /\ files = <<>>
    /\ min_group_size = DefaultMinGroupSize
    /\ results = <<>>
    /\ \E n \in 0..MaxGroups :
         \E fs \in [1..n -> DirectFolderSets], gid \in [1..n -> GroupIds] :
            groups = DirectGroups(fs, gid)
    /\ heap = DirectHeap(groups)
    /\ arg = [list |-> groups, heap |-> heap]
    /\ ret = <<>>
    /\ first = <<>>
    /\ merges = 0
    /\ call = 1
    /\ pc = "compact"

---------------------------------------------------------------------------
(* Actions *)

\* results = analyzer.analyze_folder_groups(files)
Analyze ==
    /\ pc = "start"
    /\ results' = AnalyzeFolderGroups(files, min_group_size)
    /\ heap' = AnalyzeHeap(files)
    /\ pc' = "analyzed"
    /\ UNCHANGED <<input, files, min_group_size, groups, arg, ret, first, merges, call>>

\* analyzer.compact_nested_folders(results): the parameter is the caller's list
CallCompact ==
    /\ pc = "analyzed"
    /\ groups' = results
    /\ arg' = [list |-> results, heap |-> heap]
    /\ merges' = 0
    /\ call' = 1
    /\ pc' = "compact"
    /\ UNCHANGED <<input, files, min_group_size, results, heap, ret, first>>

\* one pass of the while loop that finds a pair and merges it
MergeStep ==
    /\ pc = "compact"
    /\ MergeablePairs(groups) # {}
    /\ LET p == FirstPair(groups)
       IN /\ groups' = MergeOnce(groups)
          /\ heap' = ExtendedHeap(heap, groups[p[1]], groups[p[2]])
    /\ merges' = merges + 1
    /\ UNCHANGED <<input, files, min_group_size, results, arg, ret, first, call, pc>>

\* the pass that finds no pair (or the empty list): return the sorted copy
Return ==
    /\ pc = "compact"
    /\ MergeablePairs(groups) = {}
    /\ ret' = SortDesc(groups)
    /\ pc' = "done"
    /\ UNCHANGED <<input, files, min_group_size, results, groups, heap, arg, first, merges, call>>

\* compact_nested_folders applied to the list it returned
Reapply ==
    /\ pc = "done"
    /\ call = 1
    /\ groups' = ret
    /\ arg' = [list |-> ret, heap |-> heap]
    /\ first' = ret
    /\ merges' = 0
    /\ call' = 2
    /\ pc' = "compact"
    /\ UNCHANGED <<input, files, min_group_size, results, heap, ret>>

Init == InitRecords \/ InitGroups

Next == Analyze \/ CallCompact \/ MergeStep \/ Return \/ Reapply

Spec == Init /\ [][Next]_vars

---------------------------------------------------------------------------
(* Vocabulary of the properties, defined on the input records themselves *)

ClusterIds == {files[k].group_id : k \in DOMAIN files}

\* all records of a cluster, in report order
ClusterRecords(gid) == SelectSeq(files, LAMBDA r : r.group_id = gid)

ClusterFolders(gid) == {files[k].folder : k \in {n \in DOMAIN files : files[n].group_id = gid}}

\* the size of one copy (all records of a cluster carry the same size)
PerCopySize(gid) == files[CHOOSE k \in DOMAIN files : files[k].group_id = gid].size

ClustersOn(F) == {gid \in ClusterIds : ClusterFolders(gid) = F}

AccumulatedSize(F) == SumOver(ClustersOn(F), [gid \in ClustersOn(F) |-> PerCopySize(gid)])

AccumulatedWaste(F) ==
    SumOver(ClustersOn(F),
            [gid \in ClustersOn(F) |-> PerCopySize(gid) * (Len(ClusterRecords(gid)) - 1)])

Analyzed == input = "records" /\ pc # "start"

---------------------------------------------------------------------------
(* C1: every group returned by analyze_folder_groups has total_shared_size >=
   min_group_size, and so has every group returned by compact_nested_folders
   applied to that result. *)
C1_ThresholdKept ==
    /\ Analyzed =>
         \A k \in DOMAIN results : results[k].total_shared_size >= min_group_size
    /\ (input = "records" /\ pc = "done") =>
         \A k \in DOMAIN ret : ret[k].total_shared_size >= min_group_size

\* one folder set was dropped by the threshold, another kept and compacted
C1_Witness ==
    /\ input = "records" /\ pc = "done" /\ call = 1
    /\ min_group_size = 1500
    /\ Len(ret) = 1
    /\ \E gid \in ClusterIds : Cardinality(ClusterFolders(gid)) > 1 /\ PerCopySize(gid) = 1000
    /\ \E gid \in ClusterIds : ClusterFolders(gid) # ret[1].folders
                                 /\ Cardinality(ClusterFolders(gid)) > 1

(* C2: analyze_folder_groups returns exactly one group per folder set F
   (|F| >= 2, F the exact folder set of at least one cluster) whose accumulated
   per-copy size is >= min_group_size; its shared_files holds exactly the
   clusters on F with all their records, its total_shared_size is the
   accumulated size and its wasted_space the sum of size * (copies - 1); the
   threshold applies to the accumulated total, and a cluster on one folder is
   in no group. *)
C2_OneGroupPerFolderSet ==
    Analyzed =>
      /\ \A a, b \in DOMAIN results : results[a].folders = results[b].folders => a = b
      /\ {results[k].folders : k \in DOMAIN results}
           = {F \in {ClusterFolders(gid) : gid \in ClusterIds} :
                 Cardinality(F) >= 2 /\ AccumulatedSize(F) >= min_group_size}
      /\ \A k \in DOMAIN results :
           LET g == results[k]
           IN /\ DOMAIN g.shared_files = ClustersOn(g.folders)
              /\ \A gid \in DOMAIN g.shared_files :
                    heap[g.shared_files[gid]] = ClusterRecords(gid)
              /\ g.total_shared_size = AccumulatedSize(g.folders)
              /\ g.wasted_space = AccumulatedWaste(g.folders)
      /\ \A gid \in ClusterIds :
           Cardinality(ClusterFolders(gid)) = 1 =>
             \A k \in DOMAIN results : gid \notin DOMAIN results[k].shared_files

\* two clusters on one folder pair, one of them alone below the threshold,
\* kept together; one of them has three copies
C2_Witness ==
    /\ Analyzed /\ min_group_size = 1500
    /\ \E k \in DOMAIN results :
         /\ Cardinality(DOMAIN results[k].shared_files) = 2
         /\ \E gid \in DOMAIN results[k].shared_files : PerCopySize(gid) = 1000
         /\ results[k].total_shared_size = 3000

\* the input of test_analyze_folder_groups_threshold
ThresholdTestInput ==
    /\ input = "records" /\ min_group_size = 1500 /\ Len(files) = 4
    /\ ClusterFolders("1") = {"photos", "backup"} /\ PerCopySize("1") = 1000
    /\ ClusterFolders("2") = {"photos", "backup"} /\ PerCopySize("2") = 2000
    /\ Len(ClusterRecords("1")) = 2

(* C3: with min_group_size 1500 and two clusters on {photos, backup} of per-copy
   size 1000 and 2000, analyze_folder_groups returns one group of
   total_shared_size 2000; in general a cluster whose per-copy size is below
   min_group_size adds nothing to the total_shared_size of a returned group. *)
C3_SmallClusterNotCounted ==
    Analyzed =>
      /\ ThresholdTestInput =>
           Len(results) = 1 /\ results[1].total_shared_size = 2000
      /\ \A k \in DOMAIN results :
           LET big == {gid \in ClustersOn(results[k].folders) :
                          PerCopySize(gid) >= min_group_size}
           IN results[k].total_shared_size
                = SumOver(big, [gid \in big |-> PerCopySize(gid)])

---------------------------------------------------------------------------
(* Vocabulary of the properties of compact_nested_folders *)

\* f1 = f2, or one begins with the other followed by "/"
NestedOrSame(f1, f2) ==
    f1 = f2 \/ StartsWith(f2, f1 \o "/") \/ StartsWith(f1, f2 \o "/")

Linked(g1, g2) == \E f1 \in g1.folders, f2 \in g2.folders : NestedOrSame(f1, f2)

AllFolders(gs) == UNION {gs[k].folders : k \in DOMAIN gs}

TotalOf(gs) == SumSeq([k \in DOMAIN gs |-> gs[k].total_shared_size])

WasteOf(gs) == SumSeq([k \in DOMAIN gs |-> gs[k].wasted_space])

\* the records a group holds under a group id (none when it has no such id)
RecordsUnder(g, gid, h) ==
    IF gid \in DOMAIN g.shared_files THEN h[g.shared_files[gid]] ELSE <<>>

(* C4: a merge step that merges groups[j] into groups[i] (i < j) puts at i a
   group with the union of the folders, the sums of total_shared_size and of
   wasted_space, and every group id of both (records concatenated when the id
   is in both), removes groups[j] and leaves the other groups in place; so the
   union of all folder sets and the two sums over the list do not change
   (e.g. {photos/vacation, backup/photos} 1000 with {photos, backup} 2000
   gives one group of four folders and 3000). *)
C4_MergeStep ==
    [][ (pc = "compact" /\ merges' = merges + 1) =>
          /\ \E i, j \in DOMAIN groups :
               /\ i < j
               /\ Linked(groups[i], groups[j])
               /\ Len(groups') = Len(groups) - 1
               /\ groups'[i].folders = groups[i].folders \cup groups[j].folders
               /\ groups'[i].total_shared_size
                    = groups[i].total_shared_size + groups[j].total_shared_size
               /\ groups'[i].wasted_space
                    = groups[i].wasted_space + groups[j].wasted_space
               /\ DOMAIN groups'[i].shared_files
                    = DOMAIN groups[i].shared_files \cup DOMAIN groups[j].shared_files
               /\ \A gid \in DOMAIN groups'[i].shared_files :
                     RecordsUnder(groups'[i], gid, heap')
                       = RecordsUnder(groups[i], gid, heap)
                           \o RecordsUnder(groups[j], gid, heap)
               /\ \A k \in DOMAIN groups' :
                     k # i => groups'[k] = IF k < j THEN groups[k] ELSE groups[k + 1]
          /\ AllFolders(groups') = AllFolders(groups)
          /\ TotalOf(groups') = TotalOf(groups)
          /\ WasteOf(groups') = WasteOf(groups)
      ]_vars

\* two merges done: one added a new group id, one concatenated records
C4_Witness ==
    /\ input = "groups" /\ call = 1 /\ merges = 2
    /\ \E k \in DOMAIN groups :
         /\ DOMAIN groups[k].shared_files = {"1", "2"}
         /\ Len(heap[groups[k].shared_files["1"]]) = 4
         /\ Cardinality(groups[k].folders) = 4

\* the input of test_compact_nested_folders
NestedTestInput ==
    /\ input = "groups" /\ call = 1 /\ Len(arg.list) = 2
    /\ arg.list[1].folders = {"photos/vacation", "backup/photos"}
    /\ arg.list[1].total_shared_size = 1000 /\ arg.list[1].wasted_space = 1000
    /\ arg.list[2].folders = {"photos", "backup"}
    /\ arg.list[2].total_shared_size = 2000 /\ arg.list[2].wasted_space = 2000

(* C5: a group produced by merging nested folders lists only the outermost
   folders: {photos/vacation, backup/photos} merged with {photos, backup} is
   returned as one group with folders exactly {photos, backup},
   total_shared_size 3000 and wasted_space 3000. *)
C5_OutermostFoldersOnly ==
    (pc = "done" /\ call = 1) =>
      /\ NestedTestInput =>
           /\ Len(ret) = 1
           /\ ret[1].folders = {"photos", "backup"}
           /\ ret[1].total_shared_size = 3000
           /\ ret[1].wasted_space = 3000
      /\ \A k \in DOMAIN ret :
           ret[k] \notin Range(arg.list) =>
             \A f1, f2 \in ret[k].folders : ~StartsWith(f1, f2 \o "/")

\* folder set, total and waste of every group of a list
Summary(gs) ==
    {<<gs[k].folders, gs[k].total_shared_size, gs[k].wasted_space>> : k \in DOMAIN gs}

(* C6: the returned list is a fixed point: no two distinct groups of it hold
   folders f1, f2 with f1 = f2 or one beginning with the other plus "/"; so
   compact_nested_folders applied to its own result merges nothing and returns
   the same groups (folder sets, totals, wasted space). *)
C6_FixedPoint ==
    pc = "done" =>
      /\ \A a, b \in DOMAIN ret : a # b => ~Linked(ret[a], ret[b])
      /\ call = 2 =>
           /\ merges = 0
           /\ Len(ret) = Len(first)
           /\ Summary(ret) = Summary(first)

\* the second call has returned; the first had merged and left two groups
C6_Witness ==
    /\ input = "groups" /\ pc = "done" /\ call = 2
    /\ Len(ret) = 2
    /\ \E k \in DOMAIN ret : Cardinality(DOMAIN ret[k].shared_files) = 2

---------------------------------------------------------------------------
\* the input groups reachable from the groups S by chains of linked groups
RECURSIVE Reach(_, _)
Reach(S, gs) ==
    LET T == S \cup {k \in DOMAIN gs : \E a \in S : Linked(gs[a], gs[k])}
    IN IF T = S THEN S ELSE Reach(T, gs)

Component(a, gs) == Reach({a}, gs)

Components(gs) == {Component(a, gs) : a \in DOMAIN gs}

FolderTotals(gs) == {<<gs[k].folders, gs[k].total_shared_size>> : k \in DOMAIN gs}

Orderings(n) == {p \in [1..n -> 1..n] : \A a, b \in 1..n : p[a] = p[b] => a = b}

(* C7: the returned groups are exactly the connected components of the
   should-merge relation over the input groups: two input groups end in the
   same returned group iff a chain of pairwise linked groups joins them (so
   {A, A/x}, {A/x, B}, {B, C} collapse into one), each returned group has the
   folders and the total of its component, and every permutation of the input
   list gives the same folder sets with the same totals. *)
C7_ConnectedComponents ==
    pc = "done" =>
      LET gs == arg.list
          comps == Components(gs)
      IN /\ \A a, b \in DOMAIN gs :
              (\E k \in DOMAIN ret : gs[a].folders \cup gs[b].folders \subseteq ret[k].folders)
                <=> (\E C \in comps : a \in C /\ b \in C)
         /\ Len(ret) = Cardinality(comps)
         /\ FolderTotals(ret)
              = {<<UNION {gs[a].folders : a \in C},
                   SumOver(C, [a \in C |-> gs[a].total_shared_size])>> : C \in comps}
         /\ \A p \in Orderings(Len(gs)) :
              FolderTotals(CompactNestedFolders([k \in DOMAIN gs |-> gs[p[k]]]))
                = FolderTotals(ret)

\* three groups, the first and the last joined only through the middle one,
\* given in an order where the connecting group comes last
C7_Witness ==
    /\ input = "groups" /\ pc = "done" /\ call = 1
    /\ Len(arg.list) = 3 /\ Len(ret) = 1
    /\ ~Linked(arg.list[1], arg.list[2])
    /\ Linked(arg.list[1], arg.list[3]) /\ Linked(arg.list[2], arg.list[3])

(* C8: compact_nested_folders is a pure function of its input: after the call
   the caller's list has the same length and the same groups in the same order,
   and the record list under every group id of every input group is unchanged,
   whether or not a merge occurred. *)
C8_InputUntouched ==
    pc = "done" =>
      /\ groups = arg.list
      /\ \A k \in DOMAIN arg.list :
           \A gid \in DOMAIN arg.list[k].shared_files :
              heap[arg.list[k].shared_files[gid]] = arg.heap[arg.list[k].shared_files[gid]]

SortedDescending(gs) ==
    \A a, b \in DOMAIN gs : a < b => gs[a].total_shared_size >= gs[b].total_shared_size

(* C9: the list returned by analyze_folder_groups and the list returned by
   compact_nested_folders are sorted by total_shared_size, largest first,
   whatever the order of the records or of the input groups, also when a merge
   makes a later group larger than an earlier one. *)
C9_SortedDescending ==
    /\ Analyzed => SortedDescending(results)
    /\ pc = "done" => SortedDescending(ret)

\* a merge left the working list out of order; the returned list has two groups
C9_Witness ==
    /\ pc = "done" /\ call = 1 /\ merges > 0
    /\ Len(ret) = 2
    /\ ~SortedDescending(groups)
    /\ ret[1].total_shared_size > ret[2].total_shared_size

\* total and waste of every group follow from its shared_files, and no group id
\* is in two groups
ConsistentWithFiles(gs) ==
    \A k \in DOMAIN gs :
       LET ids == DOMAIN gs[k].shared_files
       IN /\ gs[k].total_shared_size = SumOver(ids, [gid \in ids |-> PerCopySize(gid)])
          /\ gs[k].wasted_space
               = SumOver(ids, [gid \in ids |->
                                 PerCopySize(gid) * (Len(heap[gs[k].shared_files[gid]]) - 1)])
          /\ \A n \in DOMAIN gs : n # k => ids \cap DOMAIN gs[n].shared_files = {}

(* C10: when compact_nested_folders runs on the result of analyze_folder_groups,
   after every merge step and in the returned list each group's
   total_shared_size is the sum, over the group ids in its shared_files, of the
   cluster's per-copy size counted once, its wasted_space the sum of
   size * (records under the id - 1), and no group id is in two groups. *)
C10_TotalsFollowFiles ==
    (input = "records" /\ pc \in {"compact", "done"}) =>
      /\ ConsistentWithFiles(groups)
      /\ pc = "done" => ConsistentWithFiles(ret)

\* two analyzed groups were merged into one holding both clusters
C10_Witness ==
    /\ input = "records" /\ pc = "done" /\ call = 1 /\ merges = 1
    /\ Len(ret) = 1
    /\ DOMAIN ret[1].shared_files = {"1", "2"}
    /\ ret[1].total_shared_size = 3000

---------------------------------------------------------------------------
\* (i, j) is the pair the scan from the beginning of the list meets first
FirstLinkedPair(gs, i, j) ==
    /\ i < j /\ Linked(gs[i], gs[j])
    /\ \A a, b \in DOMAIN gs :
         (a < b /\ Linked(gs[a], gs[b])) => (i < a \/ (i = a /\ j <= b))

\* a pass that merges: one pair, the first in scan order, the list one shorter,
\* and the loop goes on
MergingPass ==
    /\ merges' = merges + 1
    /\ pc' = "compact"
    /\ Len(groups') = Len(groups) - 1
    /\ \E i, j \in DOMAIN groups :
         /\ FirstLinkedPair(groups, i, j)
         /\ \A k \in DOMAIN groups' :
               k # i => groups'[k] = IF k < j THEN groups[k] ELSE groups[k + 1]

\* a pass that finds nothing: the loop is left, nothing is merged
ExitingPass ==
    /\ \A a, b \in DOMAIN groups : a < b => ~Linked(groups[a], groups[b])
    /\ merges' = merges
    /\ groups' = groups
    /\ pc' = "done"

(* C11: the merge loop of compact_nested_folders terminates: every pass either
   merges exactly one pair, the first the scan from the beginning meets, which
   shortens the list by exactly one group, or merges none and exits, and one of
   the two is always possible; for an input of n groups at most n - 1 merges
   occur, the result is never empty when n >= 1, and an empty input returns an
   empty list. *)
C11_MergeLoopTerminates ==
    /\ [][pc = "compact" => (MergingPass \/ ExitingPass)]_vars
    /\ [](pc = "compact" => (ENABLED MergeStep \/ ENABLED Return))
    /\ [](pc \in {"compact", "done"} =>
            /\ Len(groups) = Len(arg.list) - merges
            /\ Len(arg.list) >= 1 => (merges <= Len(arg.list) - 1 /\ Len(groups) >= 1)
            /\ Len(arg.list) = 0 => merges = 0)
    /\ [](pc = "done" =>
            /\ Len(ret) = Len(arg.list) - merges
            /\ Len(arg.list) >= 1 => Len(ret) >= 1
            /\ arg.list = <<>> => ret = <<>>)

\* three groups went through the largest possible number of merges, two
C11_Witness ==
    /\ pc = "done" /\ call = 1
    /\ Len(arg.list) = 3 /\ merges = 2 /\ Len(ret) = 1

====
